---------------------------- MODULE Spec2Model ----------------------------
(***************************************************************************)
(* Model of the queue-driven fleet orchestrator and of the tile codec of    *)
(* am-segmentation (src/am/ecs/__init__.py, src/src/am/segment/            *)
(* preprocess.py, src/am_segm/preprocess.py).                              *)
(*                                                                         *)
(* Independent parts of the program are modelled, each with its own        *)
(* specification over the shared variable tuple:                           *)
(*   Spec        run_wait_for_inference_task: batched launch, poll loop    *)
(*   SpecConsume consume_messages called by the only consumer of a queue   *)
(*   SpecQueue   consume_messages / delete_messages in the worker flow,    *)
(*               two workers sharing the queue                             *)
(*   SpecPool    upload_images_to_s3 / download_images_from_s3 on a        *)
(*               ThreadPoolExecutor                                        *)
(*   SpecList    list_images_on_s3 over a paginated listing                *)
(*   SpecStitch  stitch_and_crop_tiles / stitch_tiles over the tiles of    *)
(*               one image, written in any order                           *)
(*   SpecSlice   slice_to_tiles of both modules, stopped and run again     *)
(*                                                                         *)
(* Time is counted in ticks of 5 seconds: sleep(5) is one tick, the        *)
(* default sleep_interval of 10s is two ticks.                             *)
(***************************************************************************)
EXTENDS Integers, Sequences, FiniteSets, TLC

\* ------------------------------------------------------------------------
\* Bounds of the model
\* ------------------------------------------------------------------------
MaxCount == 21          \* requested task counts range over -1..MaxCount
MaxTimeout == 6         \* timeout argument, in ticks (6 ticks = 30s)
MaxInterval == 3        \* sleep_interval argument, in ticks (2 ticks = 10s)
MaxCallTime == 1        \* ticks a describe_tasks call may take
MaxLaunchFailures == 1  \* tasks a run_task call may fail to place
MaxMsgs == 3            \* tile messages enqueued by the producer
MaxRounds == 3          \* consume_messages is called with n in 1..MaxRounds or 8
MaxDeliveries == 2      \* times a message may be delivered
MaxFlowMsgs == 2        \* messages enqueued when two workers run
MaxFlowRounds == 2      \* n of consume_messages when two workers run
MaxItems == 3           \* (local path, key) pairs of one transfer batch
MaxPoolSize == 2        \* threads of the ThreadPoolExecutor
MaxDirs == 2            \* distinct parent directories of the local paths
MaxPages == 3           \* pages of a bucket listing
MaxPageKeys == 2        \* keys on one page of a listing
MaxDim == 3             \* height and width of an image, in pixels
MaxArea == 6            \* pixels of an image
MaxTileSize == 3        \* tile_size, in pixels
MaxTiles == 4           \* tiles of one image
MaxPixel == 1           \* pixel values range over 0..MaxPixel
MaxSliceArea == 2       \* pixels of an image that slice_to_tiles is run on
MaxImages == 2          \* images of one group (am_segm.preprocess)
MaxRuns == 2            \* runs of slice_to_tiles on the same input

\* ------------------------------------------------------------------------
\* Program constants
\* ------------------------------------------------------------------------
ecs_max_task_n == 10    \* tasks per run_task call
MaxTaskN == 20          \* upper limit of the assert on task_n
BatchPause == 1         \* sleep(5) between launch batches, in ticks
DefaultN == 8           \* default n of consume_messages
MaxNumberOfMessages == 1    \* messages asked for by one receive_message call

VARIABLES
    \* run_wait_for_inference_task
    pc,             \* position in the function
    task_config,    \* the caller's dict (passed by reference)
    config_in,      \* history: the dict as the caller passed it
    task_n,         \* local task_n
    task_arns,      \* local task_arns
    now,            \* time(), in ticks
    finish,         \* local finish
    sleep_interval, \* argument
    timeout,        \* argument
    task_statuses,  \* local task_statuses of the last describe_tasks
    launches,       \* history: the run_task calls, in order
    returned,       \* history: the taskArn lists the run_task calls returned
    pauses,         \* history: number of sleep(5)
    sleeps,         \* history: number of sleep(sleep_interval)
    describes,      \* history: number of describe_tasks calls
    callbacks,      \* history: the stop_callback calls, in order
    decisions,      \* history: (statuses polled, callback result) pairs
    callTime,       \* history: ticks spent outside sleep since finish was set
    loopStart,      \* history: time() when finish was computed
    \* the queue, the object store and the workers
    qstate,         \* queue: message -> "absent" | "visible" | "inflight" | "deleted"
    deliveries,     \* queue: message -> number of times it was delivered
    masks,          \* object store: the tile keys whose mask is uploaded
    consume_n,      \* argument n of consume_messages
    wpc,            \* worker -> position in the worker flow
    round,          \* worker -> loop variable i of consume_messages
    input_paths,    \* worker -> local input_paths
    receipt_handles,\* worker -> local receipt_handles
    wpos,           \* worker -> position in the upload / delete loops
    visibleAtCall,  \* history: worker -> visible messages when consume began
    emptyRounds,    \* history: worker -> rounds that returned no message
    disturbed,      \* history: worker -> the queue changed under its consume
    received,       \* history: worker -> the messages delivered to its call
    \* upload_images_to_s3 / download_images_from_s3
    op,             \* "upload" | "download" | "none": the function called
    queue_url,      \* argument queue_url is given (upload)
    pool_size,      \* threads of the executor
    nitems,         \* length of zip(local_paths, s3_paths)
    parent,         \* item -> parent directory of its local path
    dirExists,      \* local filesystem: directory -> it exists
    ist,            \* item -> state of its future and position in its call
    failure,        \* item -> the exception its call raised, or "none"
    mpc,            \* position of the calling thread
    mainIdx,        \* the item whose result the caller waits for
    bucket,         \* object store: the items whose key is uploaded
    sent,           \* queue: the items whose key was sent as a message
    localFiles,     \* local filesystem: the items downloaded
    startedAfterFailure,  \* history: a call began after some call had failed
    startedAfterRaise,    \* history: a call began after the caller saw a failure
    \* list_images_on_s3
    pages,          \* object store: the pages of the listing, each a list of keys
    lpc,            \* position in the function
    kwargs,         \* local kwargs: the ContinuationToken, <<>> when not set
    resp,           \* local resp
    keys,           \* local keys
    requests,       \* history: the ContinuationToken of every list_objects_v2 call
    \* stitch_and_crop_tiles / stitch_tiles
    image,          \* the image that was sliced
    tile_size,      \* argument tile_size
    meta,           \* the metadata record of the group
    listing,        \* tiles_path: its *.png files, in the order they were written
    spc,            \* position in stitch_and_crop_tiles
    tiles,          \* local tiles
    stitched,       \* local image of stitch_tiles
    si,             \* loop variable i of stitch_tiles
    sj,             \* loop variable j of stitch_tiles
    cover,          \* history: pixel -> number of tiles assigned to it
    warned,         \* history: the mismatch warning was logged
    serror,         \* the exception raised, or "none"
    result,         \* the image returned
    \* slice_to_tiles, both versions, and the output directory it writes
    version,        \* "am.segment" or "am_segm": which module's slice_to_tiles
    overwrite,      \* argument overwrite (am_segm)
    group,          \* the images of the input group
    slice_size,     \* tile_size
    slpc,           \* position in slice_to_tiles
    run,            \* number of the current run
    ii,             \* index of the image being sliced
    ti,             \* loop variable i of the tile loop
    fsDirs,         \* directories that exist: 0 the group's, k image k's tiles
    fsMeta,         \* content of the group's meta.json, or NoFile
    fsTiles,        \* the tile files: image, stem, data
    metaWrites,     \* history: writes of meta.json in this run
    tileWrites,     \* history: tile files written in this run
    metaAfterTile,  \* history: meta.json was written after a tile of this run
    snap,           \* history: meta.json and tile files when a run first completed
    slerror         \* the exception raised, or "none"

fleetVars == <<pc, task_config, config_in, task_n, task_arns, now, finish,
               sleep_interval, timeout, task_statuses, launches, returned,
               pauses, sleeps, describes, callbacks, decisions, callTime,
               loopStart>>

queueVars == <<qstate, deliveries, masks, consume_n, wpc, round, input_paths,
               receipt_handles, wpos, visibleAtCall, emptyRounds, disturbed,
               received>>

poolVars == <<op, queue_url, pool_size, nitems, parent, dirExists, ist,
              failure, mpc, mainIdx, bucket, sent, localFiles,
              startedAfterFailure, startedAfterRaise>>

listVars == <<pages, lpc, kwargs, resp, keys, requests>>

stitchVars == <<image, tile_size, meta, listing, spc, tiles, stitched, si, sj,
                cover, warned, serror, result>>

sliceVars == <<version, overwrite, group, slice_size, slpc, run, ii, ti, fsDirs,
               fsMeta, fsTiles, metaWrites, tileWrites, metaAfterTile, snap,
               slerror>>

vars == <<fleetVars, queueVars, poolVars, listVars, stitchVars, sliceVars>>

\* the worker processes and the messages of the model
Workers == {"w1", "w2"}
Msgs == 1..MaxMsgs

\* ------------------------------------------------------------------------
\* Helpers
\* ------------------------------------------------------------------------
Min(a, b) == IF a < b THEN a ELSE b

\* ceil(a / b) for a >= 0, b > 0
CeilDiv(a, b) == (a + b - 1) \div b

RECURSIVE Concat(_)
Concat(ss) == IF ss = <<>> THEN <<>> ELSE Head(ss) \o Concat(Tail(ss))

RECURSIVE SumSeq(_)
SumSeq(s) == IF s = <<>> THEN 0 ELSE Head(s) + SumSeq(Tail(s))

\* dict.pop(key): the dict without the key
DictPop(d, key) == [k \in (DOMAIN d) \ {key} |-> d[k]]

\* ------------------------------------------------------------------------
\* run_wait_for_inference_task
\* ------------------------------------------------------------------------
Counts == -1..MaxCount
Timeouts == 0..MaxTimeout
Intervals == 1..MaxInterval

\* assert 0 < task_n <= 20
CountIsValid(n) == 0 < n /\ n <= MaxTaskN

\* ecs_task_n = min(task_n, ecs_max_task_n)
EcsTaskNUncapped(n) == n
EcsTaskN(n) == Min(n, ecs_max_task_n)

\* if task_n > 0: sleep(5)
PauseNeeded(n) == n > 0

\* while time() < finish
LoopConditionInclusive(t, fin) == t <= fin
LoopCondition(t, fin) == t < fin

\* the arguments stop_callback is called with: stop_callback()
StopCallbackArgsStatuses(statuses) == <<statuses>>
StopCallbackArgs(statuses) == <<>>

\* if stop_callback(): break -- the position after the loop body when the
\* callback returned r
AfterCallbackKeepPolling(r) == "loop_top"
AfterCallback(r) == IF r THEN "returned" ELSE "loop_top"

\* task_arns += [t['taskArn'] for t in resp['tasks']]
AccumulateArns(arns, new) == arns \o new

\* the lastStatus lists a describe_tasks call may return for n tasks
StatusLists(n) ==
    { [i \in 1..n |-> IF i <= s THEN "STOPPED" ELSE "RUNNING"] :
        s \in {0, n} \cup ({1} \cap (1..n)) }

FleetInit ==
    /\ pc = "call"
    /\ \E c \in Counts : task_config = [count |-> c, cluster |-> "am-segm"]
    /\ config_in = task_config
    /\ task_n = 0
    /\ task_arns = <<>>
    /\ now = 0
    /\ finish = 0
    /\ sleep_interval \in Intervals
    /\ timeout \in Timeouts
    /\ task_statuses = <<>>
    /\ launches = <<>>
    /\ returned = <<>>
    /\ pauses = 0
    /\ sleeps = 0
    /\ describes = 0
    /\ callbacks = <<>>
    /\ decisions = {}
    /\ callTime = 0
    /\ loopStart = 0

\* task_n = task_config.pop('count')
PopCount ==
    /\ pc = "call"
    /\ task_n' = task_config.count
    /\ task_config' = DictPop(task_config, "count")
    /\ pc' = "assert"
    /\ UNCHANGED <<decisions, config_in, task_arns, now, finish, sleep_interval, timeout,
                   task_statuses, launches, returned, pauses, sleeps,
                   describes, callbacks, callTime, loopStart>>

\* assert 0 < task_n <= 20; ecs_max_task_n = 10; task_arns = []
AssertCount ==
    /\ pc = "assert"
    /\ pc' = IF CountIsValid(task_n) THEN "launch" ELSE "assertion_error"
    /\ task_arns' = <<>>
    /\ UNCHANGED <<decisions, task_config, config_in, task_n, now, finish, sleep_interval,
                   timeout, task_statuses, launches, returned, pauses, sleeps,
                   describes, callbacks, callTime, loopStart>>

\* one iteration of `while task_n > 0` up to the sleep: the run_task call
RunTask ==
    /\ pc = "launch"
    /\ task_n > 0
    /\ LET ecs_task_n == EcsTaskN(task_n)
       IN \E failed \in 0..MaxLaunchFailures :
            LET placed == IF failed > ecs_task_n THEN 0 ELSE ecs_task_n - failed
                first == Len(task_arns)
                arns == [i \in 1..placed |-> first + i]
            IN /\ launches' = Append(launches,
                                     [count |-> ecs_task_n, config |-> task_config])
               /\ returned' = Append(returned, arns)
               /\ task_arns' = AccumulateArns(task_arns, arns)
               /\ task_n' = task_n - ecs_task_n
               /\ pc' = IF PauseNeeded(task_n') THEN "pause" ELSE "launch"
    /\ UNCHANGED <<decisions, task_config, config_in, now, finish, sleep_interval, timeout,
                   task_statuses, pauses, sleeps, describes, callbacks,
                   callTime, loopStart>>

\* sleep(5)
Pause ==
    /\ pc = "pause"
    /\ now' = now + BatchPause
    /\ pauses' = pauses + 1
    /\ pc' = "launch"
    /\ UNCHANGED <<decisions, task_config, config_in, task_n, task_arns, finish,
                   sleep_interval, timeout, task_statuses, launches, returned,
                   sleeps, describes, callbacks, callTime, loopStart>>

\* the launch loop ends; finish = time() + timeout
SetFinish ==
    /\ pc = "launch"
    /\ ~(task_n > 0)
    /\ finish' = now + timeout
    /\ loopStart' = now
    /\ pc' = "loop_top"
    /\ UNCHANGED <<decisions, task_config, config_in, task_n, task_arns, now,
                   sleep_interval, timeout, task_statuses, launches, returned,
                   pauses, sleeps, describes, callbacks, callTime>>

\* while time() < finish: ... else: raise Exception('Timeout')
LoopTest ==
    /\ pc = "loop_top"
    /\ pc' = IF LoopCondition(now, finish) THEN "sleep" ELSE "timeout"
    /\ UNCHANGED <<decisions, task_config, config_in, task_n, task_arns, now, finish,
                   sleep_interval, timeout, task_statuses, launches, returned,
                   pauses, sleeps, describes, callbacks, callTime, loopStart>>

\* sleep(sleep_interval)
Sleep ==
    /\ pc = "sleep"
    /\ now' = now + sleep_interval
    /\ sleeps' = sleeps + 1
    /\ pc' = "describe"
    /\ UNCHANGED <<decisions, task_config, config_in, task_n, task_arns, finish,
                   sleep_interval, timeout, task_statuses, launches, returned,
                   pauses, describes, callbacks, callTime, loopStart>>

\* resp = ecs.describe_tasks(...); task_statuses = [t['lastStatus'] ...]
\* The call takes 0..MaxCallTime ticks.
DescribeTasks ==
    /\ pc = "describe"
    /\ \E d \in 0..MaxCallTime :
         /\ now' = now + d
         /\ callTime' = callTime + d
    /\ task_statuses' \in StatusLists(Len(task_arns))
    /\ describes' = describes + 1
    /\ pc' = "callback"
    /\ UNCHANGED <<decisions, task_config, config_in, task_n, task_arns, finish,
                   sleep_interval, timeout, launches, returned, pauses, sleeps,
                   callbacks, loopStart>>

\* describe_tasks with an empty task list is rejected by the service
DescribeTasksRejected ==
    /\ pc = "describe"
    /\ task_arns = <<>>
    /\ describes' = describes + 1
    /\ pc' = "client_error"
    /\ UNCHANGED <<decisions, task_config, config_in, task_n, task_arns, now, finish,
                   sleep_interval, timeout, task_statuses, launches, returned,
                   pauses, sleeps, callbacks, callTime, loopStart>>

\* if stop_callback(): break
\* The callback is a closure of the caller: its result r is an input here.
StopCallback ==
    /\ pc = "callback"
    /\ \E r \in BOOLEAN :
         /\ callbacks' = Append(callbacks,
                                [args |-> StopCallbackArgs(task_statuses),
                                 result |-> r])
         /\ decisions' = decisions \cup
                            {[statuses |-> task_statuses, result |-> r]}
         /\ pc' = AfterCallback(r)
    /\ UNCHANGED <<task_config, config_in, task_n, task_arns, now, finish,
                   sleep_interval, timeout, task_statuses, launches, returned,
                   pauses, sleeps, describes, callTime, loopStart>>

\* ------------------------------------------------------------------------
\* Properties of run_wait_for_inference_task
\* ------------------------------------------------------------------------
LaunchCounts == [i \in 1..Len(launches) |-> launches[i].count]

\* the batches a request of c tasks is split into: full batches of 10, then
\* the remainder
ExpectedBatches(c) ==
    [i \in 1..CeilDiv(c, 10) |-> IF i * 10 <= c THEN 10 ELSE c - (i - 1) * 10]

LaunchPhaseOver == pc \in {"loop_top", "sleep", "describe", "callback",
                           "returned", "timeout", "client_error"}

\* C1: for a requested count in 1..20 the run_task calls carry counts of at
\* most 10 each, full batches of 10 first and the remainder last, summing to
\* the requested count; sleep(5) happens after every batch but the last; and
\* task_arns is the concatenation, in call order, of the returned task ids.
ThmC1 ==
    LET c == config_in.count
    IN (c \in 1..20 /\ pc \notin {"call", "assert"}) =>
         /\ \A i \in 1..Len(launches) : LaunchCounts[i] <= 10
         /\ Len(launches) <= Len(ExpectedBatches(c))
         /\ LaunchCounts = SubSeq(ExpectedBatches(c), 1, Len(launches))
         /\ task_arns = Concat(returned)
         /\ pauses = IF pc = "pause" THEN Len(launches) - 1
                     ELSE IF pc = "launch" /\ task_n > 0 THEN Len(launches)
                     ELSE Len(launches) - 1
         /\ LaunchPhaseOver =>
              /\ LaunchCounts = ExpectedBatches(c)
              /\ SumSeq(LaunchCounts) = c
              /\ pauses = Len(launches) - 1

\* 13 tasks were requested and launched as [10, 3] with one pause, one of the
\* calls having placed fewer tasks than asked
WitC1 ==
    /\ config_in.count = 13
    /\ pc = "loop_top"
    /\ LaunchCounts = <<10, 3>>
    /\ pauses = 1
    /\ Len(task_arns) = 12

LastCallback == callbacks[Len(callbacks)]

\* C2: the wait loop returns normally exactly at the first poll whose
\* stop_callback result is true and raises Timeout only when the deadline has
\* elapsed and no poll's result was true; no poll follows a true result.
ThmC2 ==
    /\ \A i \in 1..(Len(callbacks) - 1) : ~callbacks[i].result
    /\ pc = "returned" => (callbacks # <<>> /\ LastCallback.result)
    /\ (callbacks # <<>> /\ LastCallback.result) => pc = "returned"
    /\ pc = "timeout" =>
         /\ \A i \in 1..Len(callbacks) : ~callbacks[i].result
         /\ now >= finish

\* the loop returned at a poll that was not the first
WitC2 ==
    /\ pc = "returned"
    /\ Len(callbacks) >= 2
    /\ LastCallback.result

\* C3: with the clock advanced only by the sleeps and a callback that is
\* never true, Timeout is raised after exactly ceil(timeout / sleep_interval)
\* polls; with timeout = 30s (6 ticks) and sleep_interval = 10s (2 ticks),
\* after 3 polls, 30s after the loop started.
ThmC3 ==
    (pc = "timeout" /\ callTime = 0) =>
        /\ Len(callbacks) = CeilDiv(timeout, sleep_interval)
        /\ describes = Len(callbacks)
        /\ sleeps = Len(callbacks)
        /\ now - loopStart = Len(callbacks) * sleep_interval
        /\ (timeout = 6 /\ sleep_interval = 2) =>
              (Len(callbacks) = 3 /\ now - loopStart = 6)

\* Timeout was raised after 3 polls with timeout = 30s, sleep_interval = 10s
WitC3 ==
    /\ pc = "timeout"
    /\ callTime = 0
    /\ timeout = 6
    /\ sleep_interval = 2
    /\ Len(callbacks) = 3

FirstPollTrue == callbacks # <<>> /\ callbacks[1].result

\* C4 as stated: when the callback is true on the first poll no sleep precedes
\* that evaluation and no sleep or poll follows it.
CexC4 ==
    FirstPollTrue =>
        /\ sleeps = 0
        /\ Len(callbacks) = 1
        /\ pc = "returned"

\* C4 amended: when the callback is true on the first poll, exactly one sleep
\* of sleep_interval and one describe_tasks call precede that evaluation, the
\* function returns right after it, and no sleep or poll follows it.
ThmC4 ==
    FirstPollTrue =>
        /\ sleeps = 1
        /\ describes = 1
        /\ Len(callbacks) = 1
        /\ pc = "returned"
        /\ now - loopStart = sleep_interval + callTime

\* the loop returned at its first poll
WitC4 ==
    /\ pc = "returned"
    /\ Len(callbacks) = 1
    /\ sleeps = 1

\* the callback result is a function of the statuses polled
DecisionIsFunctionOfStatuses ==
    \A d1, d2 \in decisions :
        d1.statuses = d2.statuses => d1.result = d2.result

\* C5 as stated: on every poll the stop predicate is evaluated on the task
\* statuses of that poll's describe call, so the decision to stop is a
\* function of the statuses just polled.
CexC5 ==
    /\ callbacks # <<>> => LastCallback.args = <<task_statuses>>
    /\ DecisionIsFunctionOfStatuses

\* C5 amended: on every poll the statuses of the describe call are obtained
\* (one describe_tasks call per callback evaluation) but the caller's
\* stop_callback is called with no arguments, and the loop stops exactly when
\* that call returns true.
ThmC5 ==
    /\ \A i \in 1..Len(callbacks) : callbacks[i].args = <<>>
    /\ pc \in {"loop_top", "sleep", "returned", "timeout"} =>
          describes = Len(callbacks)
    /\ pc = "callback" =>
          (describes = Len(callbacks) + 1 /\
           Len(task_statuses) = Len(task_arns))
    /\ pc = "returned" <=> (callbacks # <<>> /\ LastCallback.result)

\* two polls saw the same statuses and decided differently
WitC5 ==
    /\ pc = "returned"
    /\ Len(callbacks) >= 2
    /\ \E d1, d2 \in decisions :
          d1.statuses = d2.statuses /\ d1.result # d2.result

\* C20: the deadline is tested only at the top of an iteration: every
\* iteration that starts does one sleep of sleep_interval, then one
\* describe_tasks, then one stop_callback evaluation; the first
\* describe_tasks comes after the whole launch phase; with the clock advanced
\* only by the sleeps the loop ends no later than timeout + sleep_interval
\* after it started; and with timeout <= 0 Timeout is raised without a poll.
ThmC20 ==
    /\ pc \in {"loop_top", "sleep", "returned", "timeout"} =>
          (sleeps = describes /\ describes = Len(callbacks))
    /\ pc = "describe" =>
          (sleeps = describes + 1 /\ describes = Len(callbacks))
    /\ pc = "callback" =>
          (sleeps = describes /\ describes = Len(callbacks) + 1)
    /\ LaunchPhaseOver =>
          now - loopStart = sleeps * sleep_interval + callTime
    /\ (sleeps > 0 \/ describes > 0) =>
          /\ LaunchPhaseOver
          /\ task_n = 0
          /\ SumSeq(LaunchCounts) = config_in.count
    /\ (pc \in {"returned", "timeout"} /\ callTime = 0) =>
          now - loopStart <= timeout + sleep_interval
    /\ timeout <= 0 =>
          /\ sleeps = 0 /\ describes = 0 /\ callbacks = <<>>
          /\ pc \notin {"sleep", "describe", "callback", "returned"}

\* an iteration that began before the deadline ended after it: the loop
\* returned later than finish, at its second poll
WitC20 ==
    /\ pc = "returned"
    /\ callTime = 0
    /\ Len(callbacks) = 2
    /\ now > finish
    /\ now - loopStart <= timeout + sleep_interval

\* C7: a task count outside 1..20 fails the validation before any side
\* effect: no run_task, no sleep, no describe_tasks, and the caller's
\* task_config is as it was passed in.
CexC7 ==
    pc = "assertion_error" =>
        /\ launches = <<>>
        /\ pauses = 0
        /\ sleeps = 0
        /\ describes = 0
        /\ task_config = config_in

FleetNext ==
    \/ PopCount
    \/ AssertCount
    \/ RunTask
    \/ Pause
    \/ SetFinish
    \/ LoopTest
    \/ Sleep
    \/ DescribeTasks
    \/ DescribeTasksRejected
    \/ StopCallback


\* ------------------------------------------------------------------------
\* consume_messages, delete_messages and the worker flow
\* ------------------------------------------------------------------------
ConsumeNs == (1..MaxRounds) \cup {DefaultN}

Visible(q) == {m \in DOMAIN q : q[m] = "visible"}

\* the elements of a set of numbers in ascending order
RECURSIVE SeqOfSet(_)
SeqOfSet(S) ==
    IF S = {} THEN <<>>
    ELSE LET lo == CHOOSE x \in S : \A y \in S : x <= y
         IN <<lo>> \o SeqOfSet(S \ {lo})

\* sqs.receive_message(MaxNumberOfMessages=max): the sets of messages one
\* call may deliver -- as many visible messages as allowed, none if there is
\* none
Responses(q, max) ==
    {S \in SUBSET Visible(q) : Cardinality(S) = Min(max, Cardinality(Visible(q)))}

\* for i in range(n)
RoundsRemainOneMore(i, cn) == i <= cn
RoundsRemain(i, cn) == i < cn

\* for message in resp.get('Messages', []): input_paths.append(message['Body'])
ReceivedBodiesOverwrite(paths, msgs) == [i \in 1..Len(msgs) |-> msgs[i].Body]
ReceivedBodies(paths, msgs) == paths \o [i \in 1..Len(msgs) |-> msgs[i].Body]

\* ... receipt_handles.append(message['ReceiptHandle'])
ReceivedHandlesPrepended(handles, msgs) ==
    [i \in 1..Len(msgs) |-> msgs[i].ReceiptHandle] \o handles
ReceivedHandles(handles, msgs) ==
    handles \o [i \in 1..Len(msgs) |-> msgs[i].ReceiptHandle]

\* sqs.delete_message(ReceiptHandle=h): the queue states the call may leave.
\* A handle of the latest delivery of an in-flight message deletes it; a
\* stale handle may or may not delete the message; a deleted message stays
\* deleted.
DeleteOutcomes(q, dl, h) ==
    LET m == h[1]
        gone == [q EXCEPT ![m] = "deleted"]
    IN IF q[m] = "deleted" THEN {q}
       ELSE IF q[m] = "inflight" /\ dl[m] = h[2] THEN {gone}
       ELSE {q, gone}

\* k messages are queued, consume_messages is called with n = cn, and the
\* workers of `running` run
QueueInit(k, cn, running) ==
    /\ qstate = [m \in Msgs |-> IF m <= k THEN "visible" ELSE "absent"]
    /\ deliveries = [m \in Msgs |-> 0]
    /\ masks = {}
    /\ consume_n = cn
    /\ wpc = [w \in Workers |-> IF w \in running THEN "idle" ELSE "stopped"]
    /\ round = [w \in Workers |-> 0]
    /\ input_paths = [w \in Workers |-> <<>>]
    /\ receipt_handles = [w \in Workers |-> <<>>]
    /\ wpos = [w \in Workers |-> 0]
    /\ visibleAtCall = [w \in Workers |-> 0]
    /\ emptyRounds = [w \in Workers |-> 0]
    /\ disturbed = [w \in Workers |-> FALSE]
    /\ received = [w \in Workers |-> <<>>]

\* the workers whose consume_messages call is under way, other than w
Consuming(w) == {v \in Workers : v # w /\ wpc[v] = "consume"}

\* consume_messages is called: receipt_handles = []; input_paths = []
ConsumeCall(w) ==
    /\ wpc[w] = "idle"
    /\ wpc' = [wpc EXCEPT ![w] = "consume"]
    /\ visibleAtCall' = [visibleAtCall EXCEPT ![w] = Cardinality(Visible(qstate))]
    /\ UNCHANGED <<received, qstate, deliveries, masks, consume_n, round, input_paths,
                   receipt_handles, wpos, emptyRounds, disturbed>>

\* one iteration of `for i in range(n)`: one receive_message call and the
\* inner loop over its messages
ReceiveRound(w) ==
    /\ wpc[w] = "consume"
    /\ RoundsRemain(round[w], consume_n)
    /\ \E S \in Responses(qstate, MaxNumberOfMessages) :
         LET dl == [m \in Msgs |-> IF m \in S THEN deliveries[m] + 1
                                    ELSE deliveries[m]]
             order == SeqOfSet(S)
             msgs == [i \in 1..Len(order) |->
                        [Body |-> order[i],
                         ReceiptHandle |-> <<order[i], dl[order[i]]>>]]
         IN /\ qstate' = [m \in Msgs |-> IF m \in S THEN "inflight" ELSE qstate[m]]
            /\ deliveries' = dl
            /\ input_paths' =
                 [input_paths EXCEPT ![w] = ReceivedBodies(@, msgs)]
            /\ receipt_handles' =
                 [receipt_handles EXCEPT ![w] = ReceivedHandles(@, msgs)]
            /\ emptyRounds' =
                 [emptyRounds EXCEPT ![w] = IF S = {} THEN @ + 1 ELSE @]
            /\ disturbed' =
                 [v \in Workers |-> disturbed[v] \/ (v \in Consuming(w) /\ S # {})]
            /\ received' = [received EXCEPT ![w] = @ \o msgs]
    /\ round' = [round EXCEPT ![w] = @ + 1]
    /\ UNCHANGED <<masks, consume_n, wpc, wpos, visibleAtCall>>

\* return input_paths, receipt_handles
ConsumeReturn(w) ==
    /\ wpc[w] = "consume"
    /\ ~RoundsRemain(round[w], consume_n)
    /\ wpc' = [wpc EXCEPT ![w] = "download"]
    /\ UNCHANGED <<received, qstate, deliveries, masks, consume_n, round, input_paths,
                   receipt_handles, wpos, visibleAtCall, emptyRounds, disturbed>>

\* worker flow: the received tiles are downloaded
DownloadTiles(w) ==
    /\ wpc[w] = "download"
    /\ wpc' = [wpc EXCEPT ![w] = "score"]
    /\ UNCHANGED <<received, qstate, deliveries, masks, consume_n, round, input_paths,
                   receipt_handles, wpos, visibleAtCall, emptyRounds, disturbed>>

\* worker flow: the tiles are scored
ScoreTiles(w) ==
    /\ wpc[w] = "score"
    /\ wpc' = [wpc EXCEPT ![w] = "upload"]
    /\ wpos' = [wpos EXCEPT ![w] = 1]
    /\ UNCHANGED <<received, qstate, deliveries, masks, consume_n, round, input_paths,
                   receipt_handles, visibleAtCall, emptyRounds, disturbed>>

\* worker flow: the mask of the next received tile is uploaded
UploadMask(w) ==
    /\ wpc[w] = "upload"
    /\ wpos[w] <= Len(input_paths[w])
    /\ masks' = masks \cup {input_paths[w][wpos[w]]}
    /\ wpos' = [wpos EXCEPT ![w] = @ + 1]
    /\ UNCHANGED <<received, qstate, deliveries, consume_n, wpc, round, input_paths,
                   receipt_handles, visibleAtCall, emptyRounds, disturbed>>

\* worker flow: all masks are uploaded, delete_messages is called
DeleteCall(w) ==
    /\ wpc[w] = "upload"
    /\ wpos[w] > Len(input_paths[w])
    /\ wpc' = [wpc EXCEPT ![w] = "delete"]
    /\ wpos' = [wpos EXCEPT ![w] = 1]
    /\ UNCHANGED <<received, qstate, deliveries, masks, consume_n, round, input_paths,
                   receipt_handles, visibleAtCall, emptyRounds, disturbed>>

\* one iteration of `for handle in receipt_handles`: sqs.delete_message
DeleteMessage(w) ==
    /\ wpc[w] = "delete"
    /\ wpos[w] <= Len(receipt_handles[w])
    /\ qstate' \in DeleteOutcomes(qstate, deliveries, receipt_handles[w][wpos[w]])
    /\ wpos' = [wpos EXCEPT ![w] = @ + 1]
    /\ disturbed' = [v \in Workers |->
                       disturbed[v] \/ (v \in Consuming(w) /\ qstate' # qstate)]
    /\ UNCHANGED <<received, deliveries, masks, consume_n, wpc, round, input_paths,
                   receipt_handles, visibleAtCall, emptyRounds>>

\* the locals and the call history of a worker that is not in a call
Forget(w) ==
    /\ round' = [round EXCEPT ![w] = 0]
    /\ input_paths' = [input_paths EXCEPT ![w] = <<>>]
    /\ receipt_handles' = [receipt_handles EXCEPT ![w] = <<>>]
    /\ wpos' = [wpos EXCEPT ![w] = 0]
    /\ visibleAtCall' = [visibleAtCall EXCEPT ![w] = 0]
    /\ emptyRounds' = [emptyRounds EXCEPT ![w] = 0]
    /\ disturbed' = [disturbed EXCEPT ![w] = FALSE]
    /\ received' = [received EXCEPT ![w] = <<>>]

\* delete_messages returns; the worker starts over
DeleteReturn(w) ==
    /\ wpc[w] = "delete"
    /\ wpos[w] > Len(receipt_handles[w])
    /\ wpc' = [wpc EXCEPT ![w] = "idle"]
    /\ Forget(w)
    /\ UNCHANGED <<qstate, deliveries, masks, consume_n>>

\* a worker stops at any step
WorkerStops(w) ==
    /\ wpc[w] # "stopped"
    /\ wpc' = [wpc EXCEPT ![w] = "stopped"]
    /\ Forget(w)
    /\ UNCHANGED <<qstate, deliveries, masks, consume_n>>

\* the visibility timeout of an in-flight message expires: it is
\* redeliverable
VisibilityTimeout(m) ==
    /\ qstate[m] = "inflight"
    /\ deliveries[m] < MaxDeliveries
    /\ qstate' = [qstate EXCEPT ![m] = "visible"]
    /\ disturbed' = [v \in Workers |-> disturbed[v] \/ wpc[v] = "consume"]
    /\ UNCHANGED <<received, deliveries, masks, consume_n, wpc, round, input_paths,
                   receipt_handles, wpos, visibleAtCall, emptyRounds>>

\* ------------------------------------------------------------------------
\* Properties of consume_messages and the worker flow
\* ------------------------------------------------------------------------
IsInjective(f) == \A i, j \in DOMAIN f : f[i] = f[j] => i = j

ConsumeReturned(w) == wpc[w] = "download"

\* C6: consume_messages performs n receive rounds of at most one message
\* each, and when nothing else changes the queue during the call it returns
\* exactly min(n, k) messages of the k visible ones, all distinct; with n = 8
\* and k = 3 it returns 3 messages and 5 rounds are empty.
ThmC6 ==
    \A w \in Workers :
        /\ wpc[w] \in {"consume", "download"} =>
              /\ round[w] <= consume_n
              /\ Len(input_paths[w]) + emptyRounds[w] = round[w]
              /\ Len(receipt_handles[w]) = Len(input_paths[w])
        /\ ConsumeReturned(w) => round[w] = consume_n
        /\ (ConsumeReturned(w) /\ ~disturbed[w]) =>
              /\ Len(input_paths[w]) = Min(consume_n, visibleAtCall[w])
              /\ IsInjective(input_paths[w])
              /\ \A i \in 1..Len(input_paths[w]) :
                    qstate[input_paths[w][i]] # "absent"
              /\ (consume_n = 8 /\ visibleAtCall[w] = 3) =>
                    (Len(input_paths[w]) = 3 /\ emptyRounds[w] = 5)

\* consume_messages(n=8) returned from a queue of 3 messages
WitC6 ==
    /\ ConsumeReturned("w1")
    /\ ~disturbed["w1"]
    /\ consume_n = 8
    /\ visibleAtCall["w1"] = 3
    /\ Len(input_paths["w1"]) = 3
    /\ emptyRounds["w1"] = 5

\* C8: a message is deleted only after the mask of its key is uploaded:
\* every enqueued tile key has its mask in the object store or its message is
\* still in the queue, visible or in flight.
ThmC8 ==
    \A m \in Msgs :
        qstate[m] # "absent" =>
            (m \in masks \/ qstate[m] \in {"visible", "inflight"})

\* a message that was delivered twice, after a worker stopped, is deleted
\* with its mask uploaded
WitC8 ==
    \E m \in Msgs :
        /\ qstate[m] = "deleted"
        /\ m \in masks
        /\ deliveries[m] = 2
        /\ \E w \in Workers : wpc[w] = "stopped"

\* C19: consume_messages returns two lists of equal length, aligned by
\* index: body i and receipt handle i come from the same delivered message,
\* in the order of delivery, so deleting handle i acknowledges the message
\* whose body is at position i.
ThmC19 ==
    \A w \in Workers :
        /\ Len(input_paths[w]) = Len(receipt_handles[w])
        /\ Len(input_paths[w]) = Len(received[w])
        /\ \A i \in 1..Len(received[w]) :
              /\ input_paths[w][i] = received[w][i].Body
              /\ receipt_handles[w][i] = received[w][i].ReceiptHandle
              /\ receipt_handles[w][i][1] = input_paths[w][i]

\* a call returned three messages, and the last message deleted by
\* delete_messages is the one whose body stands at the same position
WitC19 ==
    \E w \in Workers :
        /\ wpc[w] = "delete"
        /\ Len(input_paths[w]) = 3
        /\ wpos[w] = 3
        /\ qstate[input_paths[w][2]] = "deleted"
        /\ input_paths[w][1] # input_paths[w][2]

QueueNext ==
    \/ \E w \in Workers : ConsumeCall(w)
    \/ \E w \in Workers : ReceiveRound(w)
    \/ \E w \in Workers : ConsumeReturn(w)
    \/ \E w \in Workers : DownloadTiles(w)
    \/ \E w \in Workers : ScoreTiles(w)
    \/ \E w \in Workers : UploadMask(w)
    \/ \E w \in Workers : DeleteCall(w)
    \/ \E w \in Workers : DeleteMessage(w)
    \/ \E w \in Workers : DeleteReturn(w)
    \/ \E w \in Workers : WorkerStops(w)
    \/ \E m \in Msgs : VisibilityTimeout(m)


\* ------------------------------------------------------------------------
\* upload_images_to_s3 and download_images_from_s3
\*
\* executor.map submits one future per (local path, key) pair; the pool
\* threads take the futures in submission order; list(...) waits for the
\* results in order, and on the first exception the map generator cancels
\* the futures that are still pending; leaving the `with` block waits for the
\* running calls, then the exception reaches the caller.
\* ------------------------------------------------------------------------
Items == 1..nitems
Dirs == 1..MaxDirs

\* a call of upload() or download() is under way for the item
InCall(st) == st \in {"exists", "mkdir", "transfer", "send"}

Running == {i \in Items : InCall(ist[i])}

\* the first step of upload(args) / download(args)
FirstStepSend(o) == IF o = "upload" THEN "send" ELSE "exists"
FirstStep(o) == IF o = "upload" THEN "transfer" ELSE "exists"

\* if not local_path.parent.exists(): local_path.parent.mkdir(parents=True)
AfterExistsCheck(exists) == IF exists THEN "transfer" ELSE "mkdir"

\* if queue_url: sqs.send_message(...)
AfterTransfer(o, q) == IF o = "upload" /\ q THEN "send" ELSE "done"

\* the generator's `finally: for future in fs: future.cancel()`
CancelNone(st) == st
CancelPending(st) ==
    [i \in DOMAIN st |-> IF st[i] = "pending" THEN "cancelled" ELSE st[i]]

PoolInit ==
    /\ op \in {"upload", "download"}
    /\ queue_url \in (IF op = "upload" THEN BOOLEAN ELSE {FALSE})
    /\ pool_size \in 1..MaxPoolSize
    /\ nitems \in 1..MaxItems
    /\ parent \in (IF op = "download" THEN [1..nitems -> Dirs]
                   ELSE {[i \in 1..nitems |-> 1]})
    /\ dirExists \in (IF op = "download" THEN [Dirs -> BOOLEAN]
                      ELSE {[d \in Dirs |-> TRUE]})
    /\ ist = [i \in 1..nitems |-> "pending"]
    /\ failure = [i \in 1..nitems |-> "none"]
    /\ mpc = "iterating"
    /\ mainIdx = 1
    /\ bucket = {}
    /\ sent = {}
    /\ localFiles = {}
    /\ startedAfterFailure = FALSE
    /\ startedAfterRaise = FALSE

AnyFailed == \E i \in Items : ist[i] = "failed"

\* a pool thread takes the next future of the work queue and begins its call
StartCall(i) ==
    /\ ist[i] = "pending"
    /\ \A j \in 1..(i - 1) : ist[j] # "pending"
    /\ Cardinality(Running) < pool_size
    /\ ist' = [ist EXCEPT ![i] = FirstStep(op)]
    /\ startedAfterFailure' = (startedAfterFailure \/ AnyFailed)
    /\ startedAfterRaise' = (startedAfterRaise \/ mpc # "iterating")
    /\ UNCHANGED <<op, queue_url, pool_size, nitems, parent, dirExists,
                   failure, mpc, mainIdx, bucket, sent, localFiles>>

\* download: local_path.parent.exists()
CheckExists(i) ==
    /\ ist[i] = "exists"
    /\ ist' = [ist EXCEPT ![i] = AfterExistsCheck(dirExists[parent[i]])]
    /\ UNCHANGED <<op, queue_url, pool_size, nitems, parent, dirExists,
                   failure, mpc, mainIdx, bucket, sent, localFiles,
                   startedAfterFailure, startedAfterRaise>>

\* download: local_path.parent.mkdir(parents=True) -- raises FileExistsError
\* when the directory exists
Mkdir(i) ==
    /\ ist[i] = "mkdir"
    /\ IF dirExists[parent[i]]
       THEN /\ ist' = [ist EXCEPT ![i] = "failed"]
            /\ failure' = [failure EXCEPT ![i] = "FileExistsError"]
            /\ UNCHANGED dirExists
       ELSE /\ ist' = [ist EXCEPT ![i] = "transfer"]
            /\ dirExists' = [dirExists EXCEPT ![parent[i]] = TRUE]
            /\ UNCHANGED failure
    /\ UNCHANGED <<op, queue_url, pool_size, nitems, parent, mpc, mainIdx,
                   bucket, sent, localFiles, startedAfterFailure,
                   startedAfterRaise>>

\* s3.upload_file / s3.download_file succeeds
Transfer(i) ==
    /\ ist[i] = "transfer"
    /\ ist' = [ist EXCEPT ![i] = AfterTransfer(op, queue_url)]
    /\ bucket' = IF op = "upload" THEN bucket \cup {i} ELSE bucket
    /\ localFiles' = IF op = "download" THEN localFiles \cup {i} ELSE localFiles
    /\ UNCHANGED <<op, queue_url, pool_size, nitems, parent, dirExists,
                   failure, mpc, mainIdx, sent, startedAfterFailure,
                   startedAfterRaise>>

\* s3.upload_file / s3.download_file raises
TransferFails(i) ==
    /\ ist[i] = "transfer"
    /\ ist' = [ist EXCEPT ![i] = "failed"]
    /\ failure' = [failure EXCEPT ![i] = "S3Error"]
    /\ UNCHANGED <<op, queue_url, pool_size, nitems, parent, dirExists, mpc,
                   mainIdx, bucket, sent, localFiles, startedAfterFailure,
                   startedAfterRaise>>

\* upload: sqs.send_message succeeds
SendMessage(i) ==
    /\ ist[i] = "send"
    /\ ist' = [ist EXCEPT ![i] = "done"]
    /\ sent' = sent \cup {i}
    /\ UNCHANGED <<op, queue_url, pool_size, nitems, parent, dirExists,
                   failure, mpc, mainIdx, bucket, localFiles,
                   startedAfterFailure, startedAfterRaise>>

\* upload: sqs.send_message raises
SendMessageFails(i) ==
    /\ ist[i] = "send"
    /\ ist' = [ist EXCEPT ![i] = "failed"]
    /\ failure' = [failure EXCEPT ![i] = "SQSError"]
    /\ UNCHANGED <<op, queue_url, pool_size, nitems, parent, dirExists, mpc,
                   mainIdx, bucket, sent, localFiles, startedAfterFailure,
                   startedAfterRaise>>

\* list(executor.map(...)): the result of the next future is there
NextResult ==
    /\ mpc = "iterating"
    /\ mainIdx <= nitems
    /\ ist[mainIdx] = "done"
    /\ mainIdx' = mainIdx + 1
    /\ UNCHANGED <<op, queue_url, pool_size, nitems, parent, dirExists, ist,
                   failure, mpc, bucket, sent, localFiles,
                   startedAfterFailure, startedAfterRaise>>

\* list(executor.map(...)): the next future raised; the pending futures are
\* cancelled and the executor is shut down
ResultRaises ==
    /\ mpc = "iterating"
    /\ mainIdx <= nitems
    /\ ist[mainIdx] = "failed"
    /\ ist' = CancelPending(ist)
    /\ mpc' = "shutdown"
    /\ UNCHANGED <<op, queue_url, pool_size, nitems, parent, dirExists,
                   failure, mainIdx, bucket, sent, localFiles,
                   startedAfterFailure, startedAfterRaise>>

\* shutdown(wait=True) is over: the exception reaches the caller
Raise ==
    /\ mpc = "shutdown"
    /\ \A i \in Items : ~InCall(ist[i]) /\ ist[i] # "pending"
    /\ mpc' = "raised"
    /\ UNCHANGED <<op, queue_url, pool_size, nitems, parent, dirExists, ist,
                   failure, mainIdx, bucket, sent, localFiles,
                   startedAfterFailure, startedAfterRaise>>

\* every result was collected: the function returns
Return ==
    /\ mpc = "iterating"
    /\ mainIdx > nitems
    /\ mpc' = "returned"
    /\ UNCHANGED <<op, queue_url, pool_size, nitems, parent, dirExists, ist,
                   failure, mainIdx, bucket, sent, localFiles,
                   startedAfterFailure, startedAfterRaise>>

PoolNext ==
    \/ \E i \in Items : StartCall(i)
    \/ \E i \in Items : CheckExists(i)
    \/ \E i \in Items : Mkdir(i)
    \/ \E i \in Items : Transfer(i)
    \/ \E i \in Items : TransferFails(i)
    \/ \E i \in Items : SendMessage(i)
    \/ \E i \in Items : SendMessageFails(i)
    \/ NextResult
    \/ ResultRaises
    \/ Raise
    \/ Return

CexC10 ==
    op = "download" =>
        \A i \in Items : failure[i] # "FileExistsError"

\* C15: upload_images_to_s3 with a queue sends the message of a key only
\* after the upload of that key succeeded: every message sent names an object
\* of the bucket, under every interleaving and also when uploads fail.
ThmC15 ==
    op = "upload" =>
        /\ sent \subseteq bucket
        /\ \A i \in Items : failure[i] = "S3Error" => i \notin sent
        /\ \A i \in Items : ist[i] \in {"pending", "cancelled", "transfer"}
                                => i \notin sent
        /\ ~queue_url => sent = {}

\* a batch with a queue raised: one key is uploaded and announced, the
\* upload of another failed and it was not announced
WitC15 ==
    /\ op = "upload"
    /\ queue_url
    /\ mpc = "raised"
    /\ \E i, j \in Items :
          /\ i \in sent /\ i \in bucket
          /\ failure[j] = "S3Error" /\ j \notin sent

\* ------------------------------------------------------------------------
\* list_images_on_s3
\* ------------------------------------------------------------------------
\* the continuation token the service hands out with page i
TokenAfter(i) == <<"token", i>>

\* s3.list_objects_v2(**kwargs): the page that follows the token; a page
\* that is not the last is truncated and carries the next token
ListObjectsV2(pp, token) ==
    LET i == IF token = <<>> THEN 1 ELSE token[2] + 1
    IN [Contents |-> pp[i],
        IsTruncated |-> i < Len(pp),
        NextContinuationToken |-> IF i < Len(pp) THEN TokenAfter(i) ELSE <<>>]

\* for doc in resp.get('Contents', []): keys.append(doc['Key'])
AppendKeysOverwrite(ks, contents) == contents
AppendKeys(ks, contents) == ks \o contents

\* the listings of np pages whose page i holds sizes[i] keys, the keys
\* numbered in listing order
Listing(sizes) ==
    [i \in 1..Len(sizes) |->
        [j \in 1..sizes[i] |-> SumSeq(SubSeq(sizes, 1, i - 1)) + j]]

ListInit ==
    /\ \E np \in 1..MaxPages :
         \E sizes \in [1..np -> 0..MaxPageKeys] : pages = Listing(sizes)
    /\ lpc = "request"
    /\ kwargs = <<>>
    /\ resp = <<>>
    /\ keys = <<>>
    /\ requests = <<>>

\* resp = s3.list_objects_v2(**kwargs)
ListObjects ==
    /\ lpc = "request"
    /\ resp' = ListObjectsV2(pages, kwargs)
    /\ requests' = Append(requests, kwargs)
    /\ lpc' = "page"
    /\ UNCHANGED <<pages, kwargs, keys>>

\* the rest of the loop body: the keys of the page are appended; a truncated
\* page sets the ContinuationToken, another one ends the loop
ProcessPage ==
    /\ lpc = "page"
    /\ keys' = AppendKeys(keys, resp.Contents)
    /\ IF resp.IsTruncated
       THEN /\ kwargs' = resp.NextContinuationToken
            /\ lpc' = "request"
       ELSE /\ kwargs' = kwargs
            /\ lpc' = "return"
    /\ UNCHANGED <<pages, resp, requests>>

\* return keys
ListReturn ==
    /\ lpc = "return"
    /\ lpc' = "done"
    /\ UNCHANGED <<pages, kwargs, resp, keys, requests>>

ListNext ==
    \/ ListObjects
    \/ ProcessPage
    \/ ListReturn

\* C13: list_images_on_s3 returns the keys of every page, each once and in
\* page order, asks for each next page with the token of the page before,
\* and ends exactly when a page comes without a further token.
ThmC13 ==
    LET done == Len(requests) - (IF lpc = "page" THEN 1 ELSE 0)
    IN /\ Len(requests) <= Len(pages)
       /\ keys = Concat(SubSeq(pages, 1, done))
       /\ \A i \in 1..Len(requests) :
             requests[i] = IF i = 1 THEN <<>> ELSE TokenAfter(i - 1)
       /\ lpc \in {"return", "done"} =>
             /\ Len(requests) = Len(pages)
             /\ ~resp.IsTruncated
             /\ keys = Concat(pages)
             /\ IsInjective(keys)
       /\ (lpc = "request" /\ requests # <<>>) => resp.IsTruncated

\* a listing of three pages, the first one empty, was returned
WitC13 ==
    /\ lpc = "done"
    /\ Len(pages) = 3
    /\ pages[1] = <<>>
    /\ Len(keys) = 3

\* ------------------------------------------------------------------------
\* Tile codec: pad_slice_image, stitch_tiles, stitch_and_crop_tiles
\*
\* An image is a sequence of rows of pixels.  The images of the model are
\* smaller than max_size, so slice_to_tiles does not shrink them.
\* ------------------------------------------------------------------------
Height(img) == Len(img)
Width(img) == IF img = <<>> THEN 0 ELSE Len(img[1])

Pixels == 0..MaxPixel

\* the (height, width) pairs of the images of the model
Shapes ==
    {hw \in (1..MaxDim) \X (1..MaxDim) : hw[1] * hw[2] <= MaxArea}

\* compute_tile_row_col_n(image.shape, tile_size)
ComputeTileRowColN(h, w, ts) == <<CeilDiv(h, ts), CeilDiv(w, ts)>>

\* pad_slice_image: the image zero-padded at the bottom and the right to
\* target_size
PadImage(img, th, tw) ==
    [y \in 1..th |->
        [x \in 1..tw |->
            IF y <= Height(img) /\ x <= Width(img) THEN img[y][x] ELSE 0]]

\* pad_slice_image(image, tile_size, target_size): the tile_size blocks of
\* the padded image in row-major order
PadSliceImage(img, ts, th, tw) ==
    LET padded == PadImage(img, th, tw)
        cols == tw \div ts
    IN [k \in 1..((th \div ts) * cols) |->
          [y \in 1..ts |->
              [x \in 1..ts |->
                  padded[((k - 1) \div cols) * ts + y][((k - 1) % cols) * ts + x]]]]

\* meta['image'] and meta['tile'] as slice_to_tiles computes them
MetaOf(img, ts) ==
    LET rc == ComputeTileRowColN(Height(img), Width(img), ts)
    IN [image |-> [h |-> Height(img), w |-> Width(img)],
        tile |-> [rows |-> rc[1], cols |-> rc[2], size |-> ts]]

\* the tiles slice_to_tiles writes for the image
SlicedTiles(img, ts) ==
    LET m == MetaOf(img, ts)
    IN PadSliceImage(img, ts, m.tile.rows * ts, m.tile.cols * ts)

\* f'{i:04}': the decimal digits of i, zero-padded to four
FormatStem(i) ==
    <<(i \div 1000) % 10, (i \div 100) % 10, (i \div 10) % 10, i % 10>>

\* int(path.stem)
RECURSIVE ParseStem(_)
ParseStem(stem) ==
    IF stem = <<>> THEN 0
    ELSE ParseStem(SubSeq(stem, 1, Len(stem) - 1)) * 10 + stem[Len(stem)]

\* string order of two stems
RECURSIVE StemLess(_, _)
StemLess(a, b) ==
    IF b = <<>> THEN FALSE
    ELSE IF a = <<>> THEN TRUE
    ELSE IF Head(a) # Head(b) THEN Head(a) < Head(b)
    ELSE StemLess(Tail(a), Tail(b))

\* sorted(tiles_path.glob('*.png'))
RECURSIVE SortedPaths(_)
SortedPaths(files) ==
    IF files = <<>> THEN <<>>
    ELSE LET k == CHOOSE a \in 1..Len(files) :
                    \A b \in 1..Len(files) : ~StemLess(files[b].stem, files[a].stem)
         IN <<files[k]>> \o
            SortedPaths([n \in 1..(Len(files) - 1) |->
                            IF n < k THEN files[n] ELSE files[n + 1]])

\* cv2.resize(tile, (tile_size, tile_size), interpolation=cv2.INTER_NEAREST)
ResizeNearest(img, nh, nw) ==
    [y \in 1..nh |->
        [x \in 1..nw |->
            img[Min(((y - 1) * Height(img)) \div nh, Height(img) - 1) + 1]
               [Min(((x - 1) * Width(img)) \div nw, Width(img) - 1) + 1]]]

\* None, which is no image
None == <<>>

\* lines 87-95 of stitch_and_crop_tiles: tiles = [None] * len(tile_paths),
\* then tiles[int(path.stem)] = the tile read from the path, resized; an
\* index beyond the list raises IndexError
LoadTilesInListingOrder(files, ts) ==
    [error |-> "none",
     tiles |-> [t \in 1..Len(files) |-> ResizeNearest(files[t].data, ts, ts)]]
LoadTiles(files, ts) ==
    LET paths == SortedPaths(files)
        cnt == Len(paths)
    IN IF \E k \in 1..cnt : ParseStem(paths[k].stem) >= cnt
       THEN [error |-> "IndexError", tiles |-> <<>>]
       ELSE [error |-> "none",
             tiles |-> [t \in 1..cnt |->
                 IF \E k \in 1..cnt : ParseStem(paths[k].stem) = t - 1
                 THEN LET k == CHOOSE k \in 1..cnt :
                                  ParseStem(paths[k].stem) = t - 1
                      IN ResizeNearest(paths[k].data, ts, ts)
                 ELSE None]]

\* np.zeros((rows, cols))
Zeros(rows, cols) == [y \in 1..rows |-> [x \in 1..cols |-> 0]]

\* tiles[i * tile_col_n + j]
TileIndexTransposed(i, j, tile_col_n) == j * tile_col_n + i
TileIndex(i, j, tile_col_n) == i * tile_col_n + j

\* (y, x) lies in image[i*ts:(i+1)*ts, j*ts:(j+1)*ts]
InBlock(y, x, i, j, ts) ==
    /\ i * ts < y /\ y <= (i + 1) * ts
    /\ j * ts < x /\ x <= (j + 1) * ts

\* image[i*ts:(i+1)*ts, j*ts:(j+1)*ts] = tile
PlaceTile(img, tile, i, j, ts) ==
    [y \in 1..Height(img) |->
        [x \in 1..Width(img) |->
            IF InBlock(y, x, i, j, ts) THEN tile[y - i * ts][x - j * ts]
            ELSE img[y][x]]]

\* CenterCrop(height, width).apply(img): the window that starts at
\* ((H - height) // 2, (W - width) // 2)
CenterCrop(img, ch, cw) ==
    LET y1 == (Height(img) - ch) \div 2
        x1 == (Width(img) - cw) \div 2
    IN [y \in 1..ch |-> [x \in 1..cw |-> img[y1 + y][x1 + x]]]

Rows == meta.tile.rows
Cols == meta.tile.cols

\* the tile indices whose file is in tiles_path
Present == {ParseStem(listing[k].stem) : k \in 1..Len(listing)}

StitchInit ==
    /\ \E hw \in Shapes : image \in [1..hw[1] -> [1..hw[2] -> Pixels]]
    /\ tile_size \in 1..MaxTileSize
    /\ meta = MetaOf(image, tile_size)
    /\ meta.tile.rows * meta.tile.cols <= MaxTiles
    /\ listing = <<>>
    /\ spc = "tiles"
    /\ tiles = <<>>
    /\ stitched = <<>>
    /\ si = 0
    /\ sj = 0
    /\ cover = <<>>
    /\ warned = FALSE
    /\ serror = "none"
    /\ result = <<>>

\* a tile of the group reaches tiles_path, in any order
WriteTile(k) ==
    /\ spc = "tiles"
    /\ k \in 0..(Rows * Cols - 1)
    /\ k \notin Present
    /\ listing' = Append(listing,
                         [stem |-> FormatStem(k),
                          data |-> SlicedTiles(image, tile_size)[k + 1]])
    /\ UNCHANGED <<image, tile_size, meta, spc, tiles, stitched, si, sj,
                   cover, warned, serror, result>>

\* stitch_and_crop_tiles is called: the tiles are loaded and stitch_tiles
\* begins (tiles[0].shape, np.zeros)
StitchCall ==
    /\ spc = "tiles"
    /\ warned' = (Len(listing) # Rows * Cols)
    /\ LET loaded == LoadTiles(listing, tile_size)
       IN IF loaded.error # "none" \/ loaded.tiles = <<>>
          THEN /\ spc' = "failed"
               /\ serror' = "IndexError"
               /\ UNCHANGED <<tiles, stitched, cover>>
          ELSE /\ spc' = "stitch"
               /\ tiles' = loaded.tiles
               /\ stitched' = Zeros(tile_size * Rows, tile_size * Cols)
               /\ cover' = Zeros(tile_size * Rows, tile_size * Cols)
               /\ UNCHANGED serror
    /\ si' = 0
    /\ sj' = 0
    /\ UNCHANGED <<image, tile_size, meta, listing, result>>

\* one iteration of the loops of stitch_tiles (the file names of a directory
\* are distinct, so a list that LoadTiles filled has no None left)
StitchStep ==
    /\ spc = "stitch"
    /\ si < Rows
    /\ LET idx == TileIndex(si, sj, Cols)
       IN IF idx >= Len(tiles)
          THEN /\ spc' = "failed"
               /\ serror' = "IndexError"
               /\ UNCHANGED <<stitched, cover, si, sj>>
          ELSE /\ stitched' = PlaceTile(stitched, tiles[idx + 1], si, sj, tile_size)
               /\ cover' = [y \in 1..Height(cover) |->
                              [x \in 1..Width(cover) |->
                                  IF InBlock(y, x, si, sj, tile_size)
                                  THEN cover[y][x] + 1 ELSE cover[y][x]]]
               /\ sj' = IF sj + 1 < Cols THEN sj + 1 ELSE 0
               /\ si' = IF sj + 1 < Cols THEN si ELSE si + 1
               /\ UNCHANGED <<spc, serror>>
    /\ UNCHANGED <<image, tile_size, meta, listing, tiles, warned, result>>

\* stitch_tiles returns; CenterCrop(meta h, w).apply(stitched_image)
CropAndReturn ==
    /\ spc = "stitch"
    /\ ~(si < Rows)
    /\ result' = CenterCrop(stitched, meta.image.h, meta.image.w)
    /\ spc' = "done"
    /\ UNCHANGED <<image, tile_size, meta, listing, tiles, stitched, si, sj,
                   cover, warned, serror>>

StitchNext ==
    \/ \E k \in 0..(MaxTiles - 1) : WriteTile(k)
    \/ StitchCall
    \/ StitchStep
    \/ CropAndReturn

\* the tiles loaded are all the tiles of the grid
Complete == Len(listing) = Rows * Cols

\* grid position (r, c) was assigned by the loops of stitch_tiles
Placed(r, c) == r < si \/ (r = si /\ c < sj)

\* C14: stitch_tiles, given rows*cols tiles, returns an image of size
\* (rows*ts, cols*ts) whose block [r*ts, (r+1)*ts) x [c*ts, (c+1)*ts) equals
\* tile r*cols + c; every pixel is assigned by exactly one tile; and the
\* call does not fail.
ThmC14 ==
    /\ (spc \in {"stitch", "done"} /\ Len(tiles) = Rows * Cols) =>
         /\ Height(stitched) = Rows * tile_size
         /\ Width(stitched) = Cols * tile_size
         /\ \A r \in 0..(Rows - 1), c \in 0..(Cols - 1) :
              \A y \in 1..tile_size, x \in 1..tile_size :
                 IF Placed(r, c)
                 THEN /\ stitched[r * tile_size + y][c * tile_size + x]
                           = tiles[r * Cols + c + 1][y][x]
                      /\ cover[r * tile_size + y][c * tile_size + x] = 1
                 ELSE cover[r * tile_size + y][c * tile_size + x] = 0
         /\ spc = "done" => \A r \in 0..(Rows - 1), c \in 0..(Cols - 1) : Placed(r, c)
    /\ (spc = "failed" /\ serror = "IndexError") => ~Complete

WitC14 ==
    /\ spc = "done"
    /\ Rows = 2
    /\ Cols = 2
    /\ Len(tiles) = 4
    /\ tiles[2] # tiles[3]
    /\ stitched[1][2] = tiles[2][1][1]
    /\ stitched[2][1] = tiles[3][1][1]

\* C11: slicing an image, stitching all its tiles and center-cropping to the
\* image's size returns the image.
CexC11 == spc = "done" => result = image

\* the image a lenient stitch would return: each present tile at its grid
\* position, zeros elsewhere
LenientStitch ==
    [y \in 1..(Rows * tile_size) |->
        [x \in 1..(Cols * tile_size) |->
            LET k == ((y - 1) \div tile_size) * Cols + ((x - 1) \div tile_size)
            IN IF k \in Present
               THEN SlicedTiles(image, tile_size)[k + 1]
                        [((y - 1) % tile_size) + 1][((x - 1) % tile_size) + 1]
               ELSE 0]]

\* C12: when the number of tile files differs from rows*cols, stitching logs
\* the mismatch, does not fail and returns the image with the present tiles
\* at their grid positions and zeros at the missing ones.
CexC12 ==
    (spc \in {"stitch", "failed", "done"} /\ ~Complete /\ listing # <<>>) =>
        /\ warned
        /\ spc # "failed"
        /\ spc = "done" => stitched = LenientStitch

\* C18: with all rows*cols tile files present, whatever the order in which
\* they were written, the call does not fail and places the tile of every
\* file by the index in its file name: file k fills slot k of the list and
\* the block at grid position (k div cols, k mod cols) of the stitched image.
ThmC18 ==
    /\ (spc \in {"stitch", "failed", "done"} /\ Complete) =>
         /\ spc # "failed"
         /\ ~warned
         /\ \A n \in 1..Len(listing) :
               tiles[ParseStem(listing[n].stem) + 1] = listing[n].data
    /\ (spc = "done" /\ Complete) =>
         /\ \A n \in 1..Len(listing) :
              LET k == ParseStem(listing[n].stem)
              IN \A y \in 1..tile_size, x \in 1..tile_size :
                    stitched[(k \div Cols) * tile_size + y][(k % Cols) * tile_size + x]
                        = listing[n].data[y][x]
         /\ result = CenterCrop(stitched, meta.image.h, meta.image.w)

WitC18 ==
    /\ spc = "done"
    /\ Len(listing) = 4
    /\ ParseStem(listing[1].stem) = 3
    /\ ParseStem(listing[2].stem) = 0
    /\ ParseStem(listing[3].stem) = 2
    /\ listing[1].data # listing[2].data
    /\ tiles[4] = listing[1].data

\* ------------------------------------------------------------------------
\* slice_to_tiles: am.segment.preprocess (one source image per group) and
\* am_segm.preprocess (every image file of the group), writing meta.json
\* and the tile files of the group.  A run can stop at any step and the
\* function can be run again on the same input.
\* ------------------------------------------------------------------------
\* a file that does not exist; a file that exists is <<content>>
NoFile == <<>>

SliceShapes ==
    {hw \in (1..MaxDim) \X (1..MaxDim) : hw[1] * hw[2] <= MaxSliceArea}

SliceImages == UNION {[1..hw[1] -> [1..hw[2] -> Pixels]] : hw \in SliceShapes}

\* f'{i:03}' of am_segm.preprocess
FormatStem3(i) == <<(i \div 100) % 10, (i \div 10) % 10, i % 10>>

TileStem(i) == IF version = "am.segment" THEN FormatStem(i) ELSE FormatStem3(i)

\* Path.mkdir(parents=True): FileExistsError when the directory exists
MkdirParents(dirs, dir) ==
    IF dir \in dirs
    THEN [error |-> "FileExistsError", dirs |-> dirs]
    ELSE [error |-> "none", dirs |-> dirs \cup {0, dir}]

\* Path.mkdir(parents=True, exist_ok=True)
MkdirParentsExistNotOk(dirs, dir) ==
    IF dir \in dirs
    THEN [error |-> "FileExistsError", dirs |-> dirs]
    ELSE [error |-> "none", dirs |-> dirs \cup {0, dir}]
MkdirParentsExistOk(dirs, dir) ==
    [error |-> "none", dirs |-> dirs \cup {0, dir}]

\* clean_dir(image_tiles_path): the directory emptied
CleanDir(files, img) == {f \in files : f.img # img}

\* cv2.imwrite / save_image: the file created or replaced
SaveFile(files, img, stem, data) ==
    {f \in files : ~(f.img = img /\ f.stem = stem)}
        \cup {[img |-> img, stem |-> stem, data |-> data]}

\* the tiles of the image being sliced
CurrentTiles == SlicedTiles(group[ii], slice_size)

SliceInit ==
    /\ version \in {"am.segment", "am_segm"}
    /\ overwrite \in BOOLEAN
    /\ version = "am.segment" => ~overwrite
    /\ \E cnt \in 1..MaxImages : group \in [1..cnt -> SliceImages]
    /\ version = "am.segment" => Len(group) = 1
    /\ slice_size \in 1..MaxTileSize
    /\ slpc = "start"
    /\ run = 1
    /\ ii = 1
    /\ ti = 0
    /\ fsDirs = {}
    /\ fsMeta = NoFile
    /\ fsTiles = {}
    /\ metaWrites = 0
    /\ tileWrites = 0
    /\ metaAfterTile = FALSE
    /\ snap = NoFile
    /\ slerror = "none"

\* am.segment line 57: image_tiles_path.mkdir(parents=True, exist_ok=True)
MakeTilesDir ==
    /\ slpc = "start"
    /\ version = "am.segment"
    /\ LET made == MkdirParentsExistOk(fsDirs, ii)
       IN /\ fsDirs' = made.dirs
          /\ slerror' = made.error
          /\ slpc' = IF made.error = "none" THEN "meta" ELSE "failed"
    /\ UNCHANGED <<version, overwrite, group, slice_size, run, ii, ti, fsMeta,
                   fsTiles, metaWrites, tileWrites, metaAfterTile, snap>>

\* am_segm line 17: tiles_path.mkdir(parents=True, exist_ok=True)
MakeRootDir ==
    /\ slpc = "start"
    /\ version = "am_segm"
    /\ slpc' = "prepare"
    /\ UNCHANGED <<version, overwrite, group, slice_size, run, ii, ti, fsDirs,
                   fsMeta, fsTiles, metaWrites, tileWrites, metaAfterTile, snap,
                   slerror>>

\* am_segm lines 37-43: the image's tiles directory is cleaned, kept or made
PrepareTilesDir ==
    /\ slpc = "prepare"
    /\ IF ii \in fsDirs
       THEN /\ fsTiles' = IF overwrite THEN CleanDir(fsTiles, ii) ELSE fsTiles
            /\ slpc' = "meta"
            /\ UNCHANGED <<fsDirs, slerror>>
       ELSE LET made == MkdirParents(fsDirs, ii)
            IN /\ fsDirs' = made.dirs
               /\ slerror' = made.error
               /\ slpc' = IF made.error = "none" THEN "meta" ELSE "failed"
               /\ UNCHANGED fsTiles
    /\ UNCHANGED <<version, overwrite, group, slice_size, run, ii, ti, fsMeta,
                   metaWrites, tileWrites, metaAfterTile, snap>>

\* json.dump(meta, open(... / 'meta.json', 'w'))
WriteMeta ==
    /\ slpc = "meta"
    /\ fsMeta' = <<MetaOf(group[ii], slice_size)>>
    /\ metaWrites' = metaWrites + 1
    /\ metaAfterTile' = (metaAfterTile \/ tileWrites > 0)
    /\ ti' = 0
    /\ slpc' = "tiles"
    /\ UNCHANGED <<version, overwrite, group, slice_size, run, ii, fsDirs,
                   fsTiles, tileWrites, snap, slerror>>

\* one iteration of the tile loop
SaveTile ==
    /\ slpc = "tiles"
    /\ ti < Len(CurrentTiles)
    /\ fsTiles' = SaveFile(fsTiles, ii, TileStem(ti), CurrentTiles[ti + 1])
    /\ tileWrites' = tileWrites + 1
    /\ ti' = ti + 1
    /\ UNCHANGED <<version, overwrite, group, slice_size, slpc, run, ii, fsDirs,
                   fsMeta, metaWrites, metaAfterTile, snap, slerror>>

\* the tile loop ends: the next image of the group, or the function returns
TilesDone ==
    /\ slpc = "tiles"
    /\ ~(ti < Len(CurrentTiles))
    /\ IF ii < Len(group)
       THEN /\ ii' = ii + 1
            /\ slpc' = "prepare"
            /\ UNCHANGED snap
       ELSE /\ slpc' = "done"
            /\ snap' = IF snap = NoFile
                       THEN <<[meta |-> fsMeta, files |-> fsTiles]>>
                       ELSE snap
            /\ UNCHANGED ii
    /\ UNCHANGED <<version, overwrite, group, slice_size, run, ti, fsDirs,
                   fsMeta, fsTiles, metaWrites, tileWrites, metaAfterTile,
                   slerror>>

\* the process is stopped in the middle of a run
Interrupt ==
    /\ slpc \in {"start", "prepare", "meta", "tiles"}
    /\ slpc' = "stopped"
    /\ UNCHANGED <<version, overwrite, group, slice_size, run, ii, ti, fsDirs,
                   fsMeta, fsTiles, metaWrites, tileWrites, metaAfterTile, snap,
                   slerror>>

\* slice_to_tiles is called again with the same arguments
Rerun ==
    /\ slpc \in {"done", "stopped"}
    /\ run < MaxRuns
    /\ run' = run + 1
    /\ slpc' = "start"
    /\ ii' = 1
    /\ ti' = 0
    /\ metaWrites' = 0
    /\ tileWrites' = 0
    /\ metaAfterTile' = FALSE
    /\ UNCHANGED <<version, overwrite, group, slice_size, fsDirs, fsMeta,
                   fsTiles, snap, slerror>>

SliceNext ==
    \/ MakeTilesDir
    \/ MakeRootDir
    \/ PrepareTilesDir
    \/ WriteMeta
    \/ SaveTile
    \/ TilesDone
    \/ Interrupt
    \/ Rerun

\* C16: meta.json is written exactly once per run, before any tile file of
\* the run and not again afterwards; whenever a tile file of the run exists,
\* meta.json exists.
CexC16 ==
    /\ metaWrites <= 1
    /\ slpc = "done" => metaWrites = 1
    /\ ~metaAfterTile
    /\ tileWrites > 0 => fsMeta # NoFile

\* C17: a run of slice_to_tiles after a completed run on the same input
\* does not fail, and when it completes meta.json and the tile files are
\* those the first completed run left.
ThmC17 ==
    /\ slpc # "failed"
    /\ slerror = "none"
    /\ (slpc = "done" /\ snap # NoFile) =>
          /\ fsMeta = snap[1].meta
          /\ fsTiles = snap[1].files
    /\ slpc = "done" => snap # NoFile

WitC17 ==
    /\ slpc = "done"
    /\ run = 2
    /\ tileWrites = 2
    /\ snap # NoFile
    /\ fsTiles = snap[1].files
    /\ Cardinality(fsTiles) = 2

\* ------------------------------------------------------------------------
\* Specifications
\* ------------------------------------------------------------------------
\* run_wait_for_inference_task at rest
FleetIdle ==
    /\ pc = "idle"
    /\ task_config = [cluster |-> "am-segm"]
    /\ config_in = task_config
    /\ task_n = 0
    /\ task_arns = <<>>
    /\ now = 0
    /\ finish = 0
    /\ sleep_interval = 2
    /\ timeout = 0
    /\ task_statuses = <<>>
    /\ launches = <<>>
    /\ returned = <<>>
    /\ pauses = 0
    /\ sleeps = 0
    /\ describes = 0
    /\ callbacks = <<>>
    /\ decisions = {}
    /\ callTime = 0
    /\ loopStart = 0

\* the queue part at rest: no message, no worker running
QueueIdle ==
    /\ qstate = [m \in Msgs |-> "absent"]
    /\ deliveries = [m \in Msgs |-> 0]
    /\ masks = {}
    /\ consume_n = DefaultN
    /\ wpc = [w \in Workers |-> "stopped"]
    /\ round = [w \in Workers |-> 0]
    /\ input_paths = [w \in Workers |-> <<>>]
    /\ receipt_handles = [w \in Workers |-> <<>>]
    /\ wpos = [w \in Workers |-> 0]
    /\ visibleAtCall = [w \in Workers |-> 0]
    /\ emptyRounds = [w \in Workers |-> 0]
    /\ disturbed = [w \in Workers |-> FALSE]
    /\ received = [w \in Workers |-> <<>>]

\* no transfer batch is under way
PoolIdle ==
    /\ op = "none"
    /\ queue_url = FALSE
    /\ pool_size = 1
    /\ nitems = 0
    /\ parent = <<>>
    /\ dirExists = [d \in Dirs |-> TRUE]
    /\ ist = <<>>
    /\ failure = <<>>
    /\ mpc = "idle"
    /\ mainIdx = 1
    /\ bucket = {}
    /\ sent = {}
    /\ localFiles = {}
    /\ startedAfterFailure = FALSE
    /\ startedAfterRaise = FALSE

\* no listing is under way
ListIdle ==
    /\ pages = <<>>
    /\ lpc = "idle"
    /\ kwargs = <<>>
    /\ resp = <<>>
    /\ keys = <<>>
    /\ requests = <<>>

\* no stitching is under way
StitchIdle ==
    /\ image = <<>>
    /\ tile_size = 1
    /\ meta = MetaOf(<<>>, 1)
    /\ listing = <<>>
    /\ spc = "idle"
    /\ tiles = <<>>
    /\ stitched = <<>>
    /\ si = 0
    /\ sj = 0
    /\ cover = <<>>
    /\ warned = FALSE
    /\ serror = "none"
    /\ result = <<>>

\* slice_to_tiles is not running
SliceIdle ==
    /\ version = "am.segment"
    /\ overwrite = FALSE
    /\ group = <<>>
    /\ slice_size = 1
    /\ slpc = "idle"
    /\ run = 0
    /\ ii = 1
    /\ ti = 0
    /\ fsDirs = {}
    /\ fsMeta = NoFile
    /\ fsTiles = {}
    /\ metaWrites = 0
    /\ tileWrites = 0
    /\ metaAfterTile = FALSE
    /\ snap = NoFile
    /\ slerror = "none"

\* run_wait_for_inference_task
Init == FleetInit /\ QueueIdle /\ PoolIdle /\ ListIdle /\ StitchIdle /\ SliceIdle

Next == FleetNext /\ UNCHANGED <<queueVars, poolVars, listVars, stitchVars, sliceVars>>

Spec == Init /\ [][Next]_vars

\* two workers share the queue
InitQueue ==
    /\ \E k \in 0..MaxFlowMsgs, cn \in 1..MaxFlowRounds :
         QueueInit(k, cn, Workers)
    /\ FleetIdle
    /\ PoolIdle
    /\ ListIdle
    /\ StitchIdle
    /\ SliceIdle

\* one worker is the only consumer of the queue
InitConsume ==
    /\ \E k \in 0..MaxMsgs, cn \in ConsumeNs : QueueInit(k, cn, {"w1"})
    /\ FleetIdle
    /\ PoolIdle
    /\ ListIdle
    /\ StitchIdle
    /\ SliceIdle

NextQueue == QueueNext /\ UNCHANGED <<fleetVars, poolVars, listVars, stitchVars, sliceVars>>

SpecQueue == InitQueue /\ [][NextQueue]_vars

SpecConsume == InitConsume /\ [][NextQueue]_vars

\* one batch of uploads or downloads
InitPool ==
    PoolInit /\ FleetIdle /\ QueueIdle /\ ListIdle /\ StitchIdle /\ SliceIdle

NextPool == PoolNext /\ UNCHANGED <<fleetVars, queueVars, listVars, stitchVars, sliceVars>>

SpecPool == InitPool /\ [][NextPool]_vars

\* one call of list_images_on_s3
InitList ==
    ListInit /\ FleetIdle /\ QueueIdle /\ PoolIdle /\ StitchIdle /\ SliceIdle

NextList == ListNext /\ UNCHANGED <<fleetVars, queueVars, poolVars, stitchVars, sliceVars>>

SpecList == InitList /\ [][NextList]_vars

\* the tiles of one image arrive in any order and are stitched
InitStitch ==
    StitchInit /\ FleetIdle /\ QueueIdle /\ PoolIdle /\ ListIdle /\ SliceIdle

NextStitch ==
    StitchNext /\ UNCHANGED <<fleetVars, queueVars, poolVars, listVars, sliceVars>>

SpecStitch == InitStitch /\ [][NextStitch]_vars

\* slice_to_tiles is run, stopped and run again on one group
InitSlice ==
    SliceInit /\ FleetIdle /\ QueueIdle /\ PoolIdle /\ ListIdle /\ StitchIdle

NextSlice ==
    SliceNext /\ UNCHANGED <<fleetVars, queueVars, poolVars, listVars, stitchVars>>

SpecSlice == InitSlice /\ [][NextSlice]_vars

=============================================================================
